---- MODULE Spec2Model ----
(***************************************************************************)
(* memogo: the JWT token subsystem (pkg/jwt, pkg/env, the JWT middleware   *)
(* and the auth endpoints of idl/memogo.thrift).                           *)
(*                                                                         *)
(* Time is counted in seconds, the resolution of the NumericDate fields of *)
(* a token (idl/memogo.thrift: "typedef i64 Timestamp // unix seconds").   *)
(* HMAC-SHA256 is modelled as an ideal MAC: the signature of a message     *)
(* under a key is the pair (message, key), so two signatures are equal     *)
(* exactly when message and key are.                                       *)
(***************************************************************************)
EXTENDS Integers, Sequences, FiniteSets, TLC

VARIABLES
    pc,         \* phase of the process: "boot", "envDone", "ready", "serving", "panicked"
    osEnv,      \* value of JWT_SECRET in the process environment ("" when unset)
    dotenv,     \* JWT_SECRET line of the .env file ("absent" when there is no file)
    jwtSecret,  \* pkg/jwt package variable jwtSecret ("" before jwt.init)
    now,        \* wall clock, unix seconds
    ticks,      \* number of clock advances so far
    pairs,      \* TokenPair responses handed to clients so far (held client-side)
    res         \* outcome of the last request served

vars == <<pc, osEnv, dotenv, jwtSecret, now, ticks, pairs, res>>

----------------------------------------------------------------------------
(* Bounds of the model *)

MaxTicks == 2

MaxPairs == 2

(* Program constants *)

AccessTTL == 15 * 60

RefreshTTL == 7 * 24 * 60 * 60

Hour == 60 * 60

\* clock advances offered to the model
Steps == {Hour, RefreshTTL}

\* the compiled-in secret of the first GetJWTSecret, removed from the code
DefaultSecret == "memogo-default-secret-change-in-production"

\* a key the attacker can sign with; never a value JWT_SECRET is set to
AttackerKey == "guess"

Principals == {[id |-> 1, name |-> "root"], [id |-> 2, name |-> "alice"]}

----------------------------------------------------------------------------
(* Wire format: a token string is the sequence of its "."-separated        *)
(* segments; a segment is the value it decodes to.                         *)

Header == [alg |-> "HS256", typ |-> "JWT"]

ClaimsFields == {"user_id", "username", "orig_iat", "exp", "iat", "nbf"}

NoClaims == [none |-> "claims"]

NoPair == [none |-> "pair"]

NoToken == <<>>

NoUser == [none |-> "user"]

JunkPayload == [junk |-> "payload"]

JunkSig == [junk |-> "sig"]

\* faulty variant: a digest of the message alone, the key left out
HMAC_Unkeyed(message, secret) == [m |-> message, k |-> ""]

\* HMAC_SHA256(message, secret): deterministic, and different for every
\* other message or key
HMAC_SHA256(message, secret) == [m |-> message, k |-> secret]

\* token.SignedString(key): header.payload.signature
SignedString(claims, key) ==
    <<Header, claims, HMAC_SHA256(<<Header, claims>>, key)>>

\* faulty variant: the environment is read on every call
GetJWTSecret_Getenv == osEnv

\* GetJWTSecret(): the cached package variable
GetJWTSecret == jwtSecret

\* faulty variant: NotBefore is set from the expiry instead of from now
GenerateToken_LateNotBefore(userID, username, duration, t) ==
    SignedString([user_id  |-> userID,
                  username |-> username,
                  orig_iat |-> t,
                  exp      |-> t + duration,
                  iat      |-> t,
                  nbf      |-> t + duration], GetJWTSecret)

\* GenerateToken(userID, username, duration) at time.Now() = t
GenerateToken(userID, username, duration, t) ==
    SignedString([user_id  |-> userID,
                  username |-> username,
                  orig_iat |-> t,
                  exp      |-> t + duration,
                  iat      |-> t,
                  nbf      |-> t], GetJWTSecret)

\* computeExpiresIn(token): the token's remaining seconds
computeExpiresIn(token, t) == token[2].exp - t

\* faulty variant: the access token is given the lifetime of one hour
GenerateTokenPair_HourAccess(userID, username, t) ==
    LET accessToken  == GenerateToken(userID, username, Hour, t)
        refreshToken == GenerateToken(userID, username, RefreshTTL, t)
    IN  [access_token       |-> accessToken,
         refresh_token      |-> refreshToken,
         access_expires_in  |-> computeExpiresIn(accessToken, t),
         refresh_expires_in |-> computeExpiresIn(refreshToken, t)]

\* faulty variant: the two lifetimes are swapped
GenerateTokenPair_Swapped(userID, username, t) ==
    LET accessToken  == GenerateToken(userID, username, RefreshTTL, t)
        refreshToken == GenerateToken(userID, username, AccessTTL, t)
    IN  [access_token       |-> accessToken,
         refresh_token      |-> refreshToken,
         access_expires_in  |-> computeExpiresIn(accessToken, t),
         refresh_expires_in |-> computeExpiresIn(refreshToken, t)]

\* faulty variant: the refresh token's remaining seconds are computed from
\* the access token
GenerateTokenPair_WrongReport(userID, username, t) ==
    LET accessToken  == GenerateToken(userID, username, AccessTTL, t)
        refreshToken == GenerateToken(userID, username, RefreshTTL, t)
    IN  [access_token       |-> accessToken,
         refresh_token      |-> refreshToken,
         access_expires_in  |-> computeExpiresIn(accessToken, t),
         refresh_expires_in |-> computeExpiresIn(accessToken, t)]

\* faulty variant: the refresh token is issued without the username
GenerateTokenPair_RefreshAnonymous(userID, username, t) ==
    LET accessToken  == GenerateToken(userID, username, AccessTTL, t)
        refreshToken == GenerateToken(userID, "", RefreshTTL, t)
    IN  [access_token       |-> accessToken,
         refresh_token      |-> refreshToken,
         access_expires_in  |-> computeExpiresIn(accessToken, t),
         refresh_expires_in |-> computeExpiresIn(refreshToken, t)]

\* GenerateTokenPair(userID, username) and the TokenPair the handler returns
GenerateTokenPair(userID, username, t) ==
    LET accessToken  == GenerateToken(userID, username, AccessTTL, t)
        refreshToken == GenerateToken(userID, username, RefreshTTL, t)
    IN  [access_token       |-> accessToken,
         refresh_token      |-> refreshToken,
         access_expires_in  |-> computeExpiresIn(accessToken, t),
         refresh_expires_in |-> computeExpiresIn(refreshToken, t)]

----------------------------------------------------------------------------
(* Validation *)

\* faulty variant: the expiry is never looked at
Valid_NoExpiry(c, t) ==
    IF t < c.nbf THEN "ErrTokenNotValidYet" ELSE "nil"

\* faulty variant: every token is given the access lifetime, counted from iat
Valid_AccessLifetime(c, t) ==
    IF t < c.nbf THEN "ErrTokenNotValidYet"
    ELSE IF t > c.iat + AccessTTL THEN "ErrTokenExpired"
    ELSE "nil"

\* faulty variant: the token is refused at the very instant it was issued
Valid_StrictNotBefore(c, t) ==
    IF t <= c.nbf THEN "ErrTokenNotValidYet"
    ELSE IF t > c.exp THEN "ErrTokenExpired"
    ELSE "nil"

\* faulty variant: a token counts as expired only during the hour after its
\* expiry
Valid_ExpiredForAnHour(c, t) ==
    IF t < c.nbf THEN "ErrTokenNotValidYet"
    ELSE IF t > c.exp /\ t <= c.exp + Hour THEN "ErrTokenExpired"
    ELSE "nil"

\* RegisteredClaims.Valid() at time t
Valid(c, t) ==
    IF t < c.nbf THEN "ErrTokenNotValidYet"
    ELSE IF t > c.exp THEN "ErrTokenExpired"
    ELSE "nil"

\* faulty variant: the payload is decoded without comparing the signature
ParseWithClaims_Unverified(tokenString, key, t) ==
    IF Len(tokenString) # 3
    THEN [err |-> "ErrTokenMalformed", claims |-> NoClaims]
    ELSE IF DOMAIN tokenString[2] # ClaimsFields
    THEN [err |-> "ErrTokenMalformed", claims |-> NoClaims]
    ELSE IF Valid(tokenString[2], t) # "nil"
    THEN [err |-> Valid(tokenString[2], t), claims |-> NoClaims]
    ELSE [err |-> "nil", claims |-> tokenString[2]]

\* faulty variant: the time fields of the payload are checked before the
\* signature is compared
ParseWithClaims_TimesFirst(tokenString, key, t) ==
    IF Len(tokenString) # 3
    THEN [err |-> "ErrTokenMalformed", claims |-> NoClaims]
    ELSE IF DOMAIN tokenString[2] = ClaimsFields /\ Valid(tokenString[2], t) # "nil"
    THEN [err |-> Valid(tokenString[2], t), claims |-> NoClaims]
    ELSE IF HMAC_SHA256(<<tokenString[1], tokenString[2]>>, key) # tokenString[3]
    THEN [err |-> "ErrTokenSignatureInvalid", claims |-> NoClaims]
    ELSE IF DOMAIN tokenString[2] # ClaimsFields
    THEN [err |-> "ErrTokenMalformed", claims |-> NoClaims]
    ELSE [err |-> "nil", claims |-> tokenString[2]]

\* jwt.ParseWithClaims(tokenString, &Claims{}, keyFunc) at time t: split,
\* recompute and compare the signature, decode the payload, check the times
ParseWithClaims(tokenString, key, t) ==
    IF Len(tokenString) # 3
    THEN [err |-> "ErrTokenMalformed", claims |-> NoClaims]
    ELSE LET message           == <<tokenString[1], tokenString[2]>>
             expectedSignature == HMAC_SHA256(message, key)
             actualSignature   == tokenString[3]
         IN  IF expectedSignature # actualSignature
             THEN [err |-> "ErrTokenSignatureInvalid", claims |-> NoClaims]
             ELSE IF DOMAIN tokenString[2] # ClaimsFields
             THEN [err |-> "ErrTokenMalformed", claims |-> NoClaims]
             ELSE IF Valid(tokenString[2], t) # "nil"
             THEN [err |-> Valid(tokenString[2], t), claims |-> NoClaims]
             ELSE [err |-> "nil", claims |-> tokenString[2]]

\* faulty variant: every failure is reported as ErrInvalidToken
ParseToken_AllInvalid(tokenString, t) ==
    LET parsed == ParseWithClaims(tokenString, GetJWTSecret, t)
    IN  IF parsed.err # "nil"
        THEN [err |-> "ErrInvalidToken", claims |-> NoClaims]
        ELSE [err |-> "nil", claims |-> parsed.claims]

\* faulty variant: a token is refused once a later pair was handed out for
\* the same user (validation consults the record of issued tokens)
ParseToken_LatestOnly(tokenString, t) ==
    LET parsed == ParseWithClaims(tokenString, GetJWTSecret, t)
    IN  IF parsed.err # "nil"
        THEN IF parsed.err = "ErrTokenExpired"
             THEN [err |-> "ErrExpiredToken", claims |-> NoClaims]
             ELSE [err |-> "ErrInvalidToken", claims |-> NoClaims]
        ELSE IF \E p \in pairs : /\ p.access_token[2].user_id = parsed.claims.user_id
                                 /\ p.access_token[2].iat > parsed.claims.iat
        THEN [err |-> "ErrInvalidToken", claims |-> NoClaims]
        ELSE [err |-> "nil", claims |-> parsed.claims]

\* faulty variant: every failure of the time checks is reported as expiry
ParseToken_TimesAsExpired(tokenString, t) ==
    LET parsed == ParseWithClaims(tokenString, GetJWTSecret, t)
    IN  IF parsed.err # "nil"
        THEN IF parsed.err \in {"ErrTokenExpired", "ErrTokenNotValidYet"}
             THEN [err |-> "ErrExpiredToken", claims |-> NoClaims]
             ELSE [err |-> "ErrInvalidToken", claims |-> NoClaims]
        ELSE [err |-> "nil", claims |-> parsed.claims]

\* ParseToken(tokenString) at time t
ParseToken(tokenString, t) ==
    LET parsed == ParseWithClaims(tokenString, GetJWTSecret, t)
    IN  IF parsed.err # "nil"
        THEN IF parsed.err = "ErrTokenExpired"
             THEN [err |-> "ErrExpiredToken", claims |-> NoClaims]
             ELSE [err |-> "ErrInvalidToken", claims |-> NoClaims]
        ELSE [err |-> "nil", claims |-> parsed.claims]

----------------------------------------------------------------------------
(* What a client can present *)

\* every token handed out so far
Issued == {p.access_token : p \in pairs} \cup {p.refresh_token : p \in pairs}

AccessTokens == {p.access_token : p \in pairs}

RefreshTokens == {p.refresh_token : p \in pairs}

\* payload segments that differ from claims c: one field altered, or bytes
\* that no longer decode
AlteredPayloads(c) ==
    ({[c EXCEPT !.user_id = i] : i \in {p.id : p \in Principals}}
        \cup {[c EXCEPT !.username = n] : n \in {p.name : p \in Principals}}
        \cup {[c EXCEPT !.exp = c.exp + RefreshTTL]}
        \cup {JunkPayload}) \ {c}

\* signature segments that differ from s: bytes of no signature, and the same
\* message signed under another key (the signature of another issued token on
\* this payload is the other token with its payload altered)
AlteredSignatures(s) ==
    {JunkSig, HMAC_SHA256(s.m, AttackerKey)} \ {s}

\* the token with its payload segment altered
TamperedPayload(tok) == {<<tok[1], p, tok[3]>> : p \in AlteredPayloads(tok[2])}

\* the token with its signature segment altered
TamperedSignature(tok) == {<<tok[1], tok[2], s>> : s \in AlteredSignatures(tok[3])}

Tampered(tok) == TamperedPayload(tok) \cup TamperedSignature(tok)

\* tokens an attacker builds and signs with a key of their own
Forged ==
    {<<Header, c, HMAC_SHA256(<<Header, c>>, AttackerKey)>> :
        c \in {[tok[2] EXCEPT !.exp = tok[2].exp + RefreshTTL] : tok \in Issued}}

\* strings that are no three segments
Malformed == {<<>>, <<Header, JunkPayload>>}

Presentable ==
    Issued \cup UNION {Tampered(tok) : tok \in Issued} \cup Forged \cup Malformed

----------------------------------------------------------------------------
(* Process start *)

\* no request is being answered
Idle == [op |-> "none", input |-> NoToken, at |-> 0, err |-> "nil",
         claims |-> NoClaims, pair |-> NoPair, status |-> 0,
         next |-> FALSE, user |-> NoUser]

Init ==
    /\ pc = "boot"
    /\ osEnv \in {"", "s1"}
    /\ dotenv \in {"absent", "s2"}
    /\ jwtSecret = ""
    /\ now = 0
    /\ ticks = 0
    /\ pairs = {}
    /\ res = Idle

\* the server is up (h.Spin()) and answers one request at a time
Accepting == pc = "serving" /\ res = Idle

\* pkg/env init(): godotenv.Load() sets the variables of the .env file that
\* the environment does not already define; a missing file is only logged
\* faulty variant: the .env file has not been loaded when jwt.init runs
\* (godotenv.Load() placed in main)
EnvInit_NotLoaded ==
    /\ pc = "boot"
    /\ pc' = "envDone"
    /\ UNCHANGED <<osEnv, dotenv, jwtSecret, now, ticks, pairs, res>>

\* faulty variant: a failing godotenv.Load() ends the process (log.Fatal)
EnvInit_Fatal ==
    /\ pc = "boot"
    /\ pc' = IF dotenv = "absent" THEN "panicked" ELSE "envDone"
    /\ osEnv' = IF dotenv # "absent" /\ osEnv = "" THEN dotenv ELSE osEnv
    /\ UNCHANGED <<dotenv, jwtSecret, now, ticks, pairs, res>>

EnvInit ==
    /\ pc = "boot"
    /\ pc' = "envDone"
    /\ osEnv' = IF dotenv # "absent" /\ osEnv = "" THEN dotenv ELSE osEnv
    /\ UNCHANGED <<dotenv, jwtSecret, now, ticks, pairs, res>>

\* pkg/jwt init()
\* faulty variant: an empty JWT_SECRET is replaced by the compiled-in secret
JwtInit_Fallback ==
    /\ pc = "envDone"
    /\ LET secret == osEnv
       IN  jwtSecret' = IF secret = "" THEN DefaultSecret ELSE secret
    /\ pc' = "ready"
    /\ UNCHANGED <<osEnv, dotenv, now, ticks, pairs, res>>

\* faulty variant: every start generates its own signing key instead of
\* using the configured one
JwtInit_Generated ==
    /\ pc = "envDone"
    /\ LET secret == osEnv
       IN  IF secret = ""
           THEN /\ pc' = "panicked"
                /\ UNCHANGED jwtSecret
           ELSE /\ pc' = "ready"
                /\ jwtSecret' = "generated"
    /\ UNCHANGED <<osEnv, dotenv, now, ticks, pairs, res>>

JwtInit ==
    /\ pc = "envDone"
    /\ LET secret == osEnv
       IN  IF secret = ""
           THEN /\ pc' = "panicked"
                /\ UNCHANGED jwtSecret
           ELSE /\ pc' = "ready"
                /\ jwtSecret' = secret
    /\ UNCHANGED <<osEnv, dotenv, now, ticks, pairs, res>>

\* main(): the server starts to accept connections
Main ==
    /\ pc = "ready"
    /\ pc' = "serving"
    /\ UNCHANGED <<osEnv, dotenv, jwtSecret, now, ticks, pairs, res>>

\* the process is stopped and started again, possibly with another
\* JWT_SECRET configured; tokens already handed out stay with the clients
Restart ==
    /\ pc \in {"serving", "panicked"}
    /\ res = Idle
    /\ pc' = "boot"
    /\ osEnv' \in {"", "s1"}
    /\ jwtSecret' = ""
    /\ UNCHANGED <<dotenv, now, ticks, pairs, res>>

\* the clock advances
Tick ==
    /\ ticks < MaxTicks
    /\ res = Idle
    /\ \E d \in Steps : now' = now + d
    /\ ticks' = ticks + 1
    /\ UNCHANGED <<pc, osEnv, dotenv, jwtSecret, pairs, res>>

----------------------------------------------------------------------------
(* Requests *)

\* Register / Login: the verified user gets a token pair
\* (jwtPkg.GenerateTokenPair(user.ID, user.Username), returned as TokenPair)
Login(p) ==
    /\ Accepting
    /\ LET pair == GenerateTokenPair(p.id, p.name, now)
       IN  /\ pair \in pairs \/ Cardinality(pairs) < MaxPairs
           /\ pairs' = pairs \cup {pair}
           /\ res' = [op |-> "login", input |-> NoToken, at |-> now, err |-> "nil",
                      claims |-> NoClaims, pair |-> pair, status |-> 200,
                      next |-> FALSE, user |-> NoUser]
    /\ UNCHANGED <<pc, osEnv, dotenv, jwtSecret, now, ticks>>

\* a call of ParseToken on a presented string
Validate(tokenString) ==
    /\ Accepting
    /\ LET parsed == ParseToken(tokenString, now)
       IN  res' = [op |-> "validate", input |-> tokenString, at |-> now,
                   err |-> parsed.err, claims |-> parsed.claims, pair |-> NoPair,
                   status |-> 0, next |-> FALSE, user |-> NoUser]
    /\ UNCHANGED <<pc, osEnv, dotenv, jwtSecret, now, ticks, pairs>>

\* the kind a parsed token counts as where `expected` is the kind the
\* endpoint wants: Claims has no kind field, so an access and a refresh token
\* differ in nothing but their lifetime and are told apart by where they are
\* presented
KindOf(claims, expected) ==
    IF "token_kind" \in DOMAIN claims THEN claims.token_kind ELSE expected

\* RefreshToken(req.refresh_token): validate, check the kind, issue a new pair
Refresh(tokenString, t) ==
    LET parsed == ParseToken(tokenString, t)
    IN  IF parsed.err # "nil"
        THEN [err |-> parsed.err, pair |-> NoPair]
        ELSE IF KindOf(parsed.claims, "REFRESH") # "REFRESH"
        THEN [err |-> "WRONG_TOKEN_KIND", pair |-> NoPair]
        ELSE [err |-> "nil",
              pair |-> GenerateTokenPair(parsed.claims.user_id,
                                         parsed.claims.username, t)]

\* POST /v1/auth/refresh
RefreshToken(tokenString) ==
    /\ Accepting
    /\ LET r == Refresh(tokenString, now)
       IN  /\ r.err = "nil" => r.pair \in pairs \/ Cardinality(pairs) < MaxPairs
           /\ pairs' = IF r.err = "nil" THEN pairs \cup {r.pair} ELSE pairs
           /\ res' = [op |-> "refresh", input |-> tokenString, at |-> now,
                      err |-> r.err, claims |-> NoClaims, pair |-> r.pair,
                      status |-> IF r.err = "nil" THEN 200 ELSE 401,
                      next |-> FALSE, user |-> NoUser]
    /\ UNCHANGED <<pc, osEnv, dotenv, jwtSecret, now, ticks>>

\* strings.TrimPrefix(tokenString, "Bearer ")
TrimPrefix(header) == header.token

\* the function MiddlewareFunc() returns, run on a protected request
\* faulty variant: the 401 is written but the chain is not aborted
MiddlewareFunc_NoAbort(header, t) ==
    LET tokenString == TrimPrefix(header)
        token       == ParseWithClaims(tokenString, jwtSecret, t)
    IN  IF token.err # "nil"
        THEN [status |-> 401, next |-> TRUE, user |-> NoUser]
        ELSE [status |-> 200, next |-> TRUE,
              user |-> [UserID |-> token.claims.user_id, Username |-> token.claims.username]]

MiddlewareFunc(header, t) ==
    LET tokenString == TrimPrefix(header)
        token       == ParseWithClaims(tokenString, jwtSecret, t)
    IN  IF token.err # "nil"
        THEN [status |-> 401, next |-> FALSE, user |-> NoUser]
        ELSE [status |-> 200, next |-> TRUE,
              user |-> [UserID   |-> token.claims.user_id,
                        Username |-> token.claims.username]]

\* a protected request (e.g. DELETE /v1/todos) with an Authorization header
Request(header) ==
    /\ Accepting
    /\ LET g == MiddlewareFunc(header, now)
       IN  res' = [op |-> "request", input |-> TrimPrefix(header), at |-> now,
                   err |-> "nil", claims |-> NoClaims, pair |-> NoPair,
                   status |-> g.status, next |-> g.next, user |-> g.user]
    /\ UNCHANGED <<pc, osEnv, dotenv, jwtSecret, now, ticks, pairs>>

\* the response of the request served leaves the server
Reply ==
    /\ res # Idle
    /\ res' = Idle
    /\ UNCHANGED <<pc, osEnv, dotenv, jwtSecret, now, ticks, pairs>>

Headers ==
    {[scheme |-> "Bearer", token |-> tok] : tok \in Issued \cup Forged \cup Malformed}

Next ==
    \/ EnvInit
    \/ JwtInit
    \/ Main
    \/ Restart
    \/ Tick
    \/ Accepting /\ \E p \in Principals : Login(p)
    \/ Accepting /\ \E tok \in Presentable : Validate(tok)
    \/ Accepting /\ \E tok \in Presentable : RefreshToken(tok)
    \/ Accepting /\ \E h \in Headers : Request(h)
    \/ Reply

Spec == Init /\ [][Next]_vars

----------------------------------------------------------------------------
(* Vocabulary of the claims *)

\* the issued tokens that carry a signature under the secret now in force
Current == {tok \in Issued : tok[3].k = jwtSecret}

\* the kind a token was issued as: the slot of the TokenPair it came in
KindIssued(tok) == IF tok \in AccessTokens THEN "ACCESS" ELSE "REFRESH"

\* the last request presented a token and the server accepted it
Accepted ==
    \/ res.op = "validate" /\ res.err = "nil"
    \/ res.op = "request" /\ res.next

\* the token of the last request was inside its validity window when served
InWindow == res.input[2].nbf <= res.at /\ res.at < res.input[2].exp

PairTokens(p) == {p.access_token, p.refresh_token}

----------------------------------------------------------------------------
(* C1 .. C10 *)

\* C1: round trip. A token issued for principal P as kind K validates at every
\* instant of [t0, t0 + D) and the claims returned carry P (id and name) and K.
C1_RoundTrip ==
    (res.op = "validate" /\ res.input \in Current /\ InWindow)
        => /\ res.err = "nil"
           /\ res.claims.user_id = res.input[2].user_id
           /\ res.claims.username = res.input[2].username
           /\ "token_kind" \in DOMAIN res.claims
           /\ res.claims.token_kind = KindIssued(res.input)

\* C2: expiry. A token issued at t0 with duration D fails with the expired
\* error at every instant after t0 + D; a 15-minute access token validates at
\* t0 + 14m59s and is expired at t0 + 15m1s.
C2_Expiry ==
    /\ (res.op = "validate" /\ res.input \in Current /\ res.at > res.input[2].exp)
           => res.err = "ErrExpiredToken" /\ res.claims = NoClaims
    /\ Accepting =>
           \A tok \in Current :
               /\ \A e \in {1, Hour} : ParseToken(tok, tok[2].exp + e).err = "ErrExpiredToken"
               /\ tok \in AccessTokens =>
                      /\ ParseToken(tok, tok[2].iat + AccessTTL - 1).err = "nil"
                      /\ ParseToken(tok, tok[2].iat + AccessTTL + 1).err = "ErrExpiredToken"

C2_Witness ==
    /\ res.op = "validate"
    /\ res.input \in Current \cap AccessTokens
    /\ res.at > res.input[2].exp
    /\ res.err = "ErrExpiredToken"

\* C3: tamper detection. Altering the payload segment or the signature segment
\* of a validly issued token makes validation fail at the signature comparison
\* (ParseToken reports it as ErrInvalidToken) and no claims are returned.
C3_TamperDetected ==
    /\ (res.op = "validate" /\ \E tok \in Current : res.input \in Tampered(tok))
           => res.err = "ErrInvalidToken" /\ res.claims = NoClaims
    /\ Accepting =>
           \A tok \in Current : \A alt \in Tampered(tok) :
               /\ ParseWithClaims(alt, jwtSecret, now).err = "ErrTokenSignatureInvalid"
               /\ ParseToken(alt, now) = [err |-> "ErrInvalidToken", claims |-> NoClaims]

C3_Witness ==
    /\ res.op = "validate"
    /\ \E tok \in Current :
           /\ res.input \in TamperedPayload(tok)
           /\ res.input[2] # JunkPayload
           /\ res.at < tok[2].exp
    /\ res.err = "ErrInvalidToken"
    /\ res.claims = NoClaims

\* C4: unforgeability. The signature check passes exactly for the strings the
\* issuer signed under the secret now in force: nothing that was never issued
\* is accepted, and after the secret is replaced every token issued under the
\* previous secret fails validation.
C4_Unforgeable ==
    /\ Accepting =>
           \A s \in Presentable :
               (ParseWithClaims(s, jwtSecret, now).err
                    \in {"nil", "ErrTokenNotValidYet", "ErrTokenExpired"})
                   <=> s \in Current
    /\ Accepted => res.input \in Current
    /\ (res.op = "validate" /\ res.input \in Issued \ Current)
           => res.err = "ErrInvalidToken"

C4_Witness ==
    /\ res.op = "validate"
    /\ res.input \in Issued \ Current
    /\ res.at < res.input[2].exp
    /\ res.err = "ErrInvalidToken"

\* C5: refresh with a validly issued, unexpired access token fails with
\* WRONG_TOKEN_KIND and issues no pair.
C5_AccessTokenRefused ==
    (res.op = "refresh" /\ res.input \in Current \cap AccessTokens /\ InWindow)
        => res.err = "WRONG_TOKEN_KIND" /\ res.pair = NoPair

C7_RefreshIssuesPair ==
    /\ (res.op = "refresh" /\ res.input \in Current \cap RefreshTokens /\ InWindow)
           => /\ res.err = "nil"
              /\ res.pair \in pairs
              /\ \A tok \in PairTokens(res.pair) :
                     /\ tok[2].user_id = res.input[2].user_id
                     /\ tok[2].username = res.input[2].username
                     /\ tok[2].iat = res.at
                     /\ ParseToken(tok, res.at).err = "nil"
              /\ res.pair.access_token[2].exp = res.at + AccessTTL
              /\ res.pair.refresh_token[2].exp = res.at + RefreshTTL
    /\ Accepting =>
           \A tok \in Current \cap RefreshTokens :
               Refresh(tok, tok[2].iat + Hour).pair.access_token[2].exp
                   = tok[2].iat + Hour + AccessTTL

C7_Witness ==
    /\ res.op = "refresh"
    /\ res.input \in RefreshTokens
    /\ res.at = res.input[2].iat + Hour
    /\ res.err = "nil"
    /\ res.pair.access_token[2].exp = res.input[2].iat + Hour + AccessTTL

\* C8: bounded blast radius. Refresh calls made with nothing but an access
\* token of expiry X yield no credential that is accepted at a time >= X.
C8_BoundedBlastRadius ==
    (res.op = "refresh" /\ res.input \in AccessTokens /\ res.err = "nil")
        => \A tok \in PairTokens(res.pair) :
               \A t \in {res.input[2].exp, res.input[2].exp + 1, res.input[2].exp + Hour} :
                   ParseToken(tok, t).err # "nil"

\* C9: kind separation at the gate. A validly issued, unexpired refresh token
\* presented as the Bearer credential of a protected request is never admitted
\* to the downstream handler.
C9_RefreshTokenNotAdmitted ==
    (res.op = "request" /\ res.input \in Current \cap RefreshTokens /\ InWindow)
        => ~res.next /\ res.status = 401

\* C10: refresh does not consume its input. After a successful refresh with R,
\* R is still the token the client holds, still validates and can be refreshed
\* again at every time before its own expiry; no operation removes or alters a
\* token that was issued.
C10_RefreshKeepsInput ==
    /\ [](/\ (res.op = "refresh" /\ res.err = "nil")
                 => /\ res.input \in Issued
                    /\ \A t \in {res.at, res.input[2].exp - 1} :
                           /\ ParseToken(res.input, t).err = "nil"
                           /\ Refresh(res.input, t).err = "nil"
          /\ Accepting =>
                 \A tok \in Current \cap RefreshTokens :
                     now < tok[2].exp
                         => /\ ParseToken(tok, now).err = "nil"
                            /\ Refresh(tok, now).err = "nil")
    /\ [][Issued \subseteq Issued']_vars

C10_Witness ==
    /\ res.op = "refresh"
    /\ res.err = "nil"
    /\ res.input \in RefreshTokens
    /\ res.at > res.input[2].iat
    /\ res.pair.refresh_token # res.input
    /\ Cardinality(pairs) > 1

----------------------------------------------------------------------------
(* C11 .. C20 *)

\* C11: no revocation. While the secret is the one a token was signed with,
\* the token validates at every time t with not_before <= t < expires_at,
\* whatever logins, validations and refreshes happened since it was issued.
C11_NoRevocation ==
    /\ (res.op = "validate" /\ res.input \in Current /\ InWindow)
           => res.err = "nil" /\ res.claims = res.input[2]
    /\ Accepting =>
           \A tok \in Current :
               \A t \in {tok[2].nbf, now, tok[2].exp - 1} :
                   (tok[2].nbf <= t /\ t < tok[2].exp) => ParseToken(tok, t).err = "nil"

C11_Witness ==
    /\ res.op = "validate"
    /\ res.input \in Current
    /\ res.at > res.input[2].iat
    /\ res.err = "nil"
    /\ \E p \in pairs : p.access_token[2].iat > res.input[2].iat

\* C12: the gate. A protected request whose Bearer credential fails validation
\* is answered 401 and the downstream handler is not invoked; one whose
\* credential validates reaches the handler with exactly the user id and
\* username of the token.
C12_Gate ==
    /\ res.op = "request" =>
           IF ParseToken(res.input, res.at).err # "nil"
           THEN res.status = 401 /\ ~res.next /\ res.user = NoUser
           ELSE /\ res.next
                /\ res.user = [UserID   |-> res.input[2].user_id,
                               Username |-> res.input[2].username]
    /\ Accepting =>
           \A s \in Presentable :
               LET g == MiddlewareFunc([scheme |-> "Bearer", token |-> s], now)
                   v == ParseToken(s, now)
               IN  IF v.err # "nil"
                   THEN g = [status |-> 401, next |-> FALSE, user |-> NoUser]
                   ELSE g.next /\ g.user = [UserID   |-> v.claims.user_id,
                                            Username |-> v.claims.username]

C12_Witness ==
    /\ res.op = "request"
    /\ res.input \in Current
    /\ res.at > res.input[2].exp
    /\ res.status = 401
    /\ ~res.next

----------------------------------------------------------------------------
(* The token library on its own: GenerateToken called with any duration,   *)
(* and the environment changing under the running process.                 *)

\* lifetimes a caller can pass to GenerateToken
Durations == {0 - 1, 0, 1, AccessTTL, RefreshTTL}

\* JWT_SECRET is set, changed or unset in the environment of the running
\* process
SetEnv ==
    /\ Accepting
    /\ osEnv' \in {"", "s1", "s2"} \ {osEnv}
    /\ UNCHANGED <<pc, dotenv, jwtSecret, now, ticks, pairs, res>>

\* GenerateToken(userID, username, duration) called directly
Issue(p, duration) ==
    /\ Accepting
    /\ res' = [op |-> "issue", input |-> GenerateToken(p.id, p.name, duration, now),
               at |-> now, err |-> "nil", claims |-> NoClaims, pair |-> NoPair,
               status |-> 0, next |-> FALSE, user |-> NoUser]
    /\ UNCHANGED <<pc, osEnv, dotenv, jwtSecret, now, ticks, pairs>>

NextLib ==
    \/ EnvInit \/ JwtInit \/ Main \/ Restart \/ Tick \/ SetEnv
    \/ Accepting /\ \E p \in Principals : Login(p)
    \/ Accepting /\ \E p \in Principals : \E d \in Durations : Issue(p, d)
    \/ Accepting /\ \E tok \in Issued : Validate(tok)
    \/ Reply

SpecLib == Init /\ [][NextLib]_vars

\* C14: the secret is read once. From the end of jwt.init to the end of the
\* process GetJWTSecret returns the value read at startup, also after
\* JWT_SECRET has changed in the environment; only jwt.init writes it, and it
\* has been written before any request is served.
C14_SecretReadOnce ==
    /\ [][(pc \in {"ready", "serving"} /\ pc' \in {"ready", "serving"})
              => GetJWTSecret' = GetJWTSecret]_vars
    /\ [][jwtSecret' # jwtSecret
              => (pc = "envDone" /\ pc' = "ready") \/ pc' = "boot"]_vars
    /\ [](/\ res # Idle => pc = "serving" /\ GetJWTSecret # ""
          /\ res.op = "issue" => res.input[3].k = jwtSecret
          /\ res.op = "login" => res.pair.access_token[3].k = jwtSecret)

C14_Witness ==
    /\ pc = "serving"
    /\ osEnv # jwtSecret
    /\ res.op = "validate"
    /\ res.err = "nil"
    /\ res.input[3].k = jwtSecret

\* C15: initialization order. In every startup env.init runs first, jwt.init
\* reads JWT_SECRET after it, main starts after jwt.init, and requests are
\* served only after main started; a JWT_SECRET defined only in the .env file
\* is therefore the secret jwt.init reads, and startup does not panic.
C15_InitOrder ==
    /\ [][pc' # pc => <<pc, pc'>> \in {<<"boot", "envDone">>, <<"envDone", "ready">>,
                                        <<"envDone", "panicked">>, <<"ready", "serving">>,
                                        <<"serving", "boot">>, <<"panicked", "boot">>}]_vars
    /\ [][jwtSecret' \notin {jwtSecret, ""} => pc = "envDone" /\ jwtSecret' = osEnv]_vars
    /\ [](/\ res # Idle => pc = "serving"
          /\ (pc = "envDone" /\ dotenv # "absent") => osEnv # ""
          /\ pc = "panicked" => dotenv = "absent"
          /\ pc = "boot" => jwtSecret = "")

C15_Witness ==
    /\ pc = "serving"
    /\ dotenv # "absent"
    /\ jwtSecret = dotenv
    /\ res.op = "login"

\* a three-segment string whose signature segment is not the HMAC of its
\* first two segments under the secret in force
BadlySigned(s) ==
    Len(s) = 3 /\ s[3] # HMAC_SHA256(<<s[1], s[2]>>, jwtSecret)

\* instants at which the payload of s, were it trusted, is in force, not yet
\* valid and expired
ProbeTimes(s) ==
    IF DOMAIN s[2] = ClaimsFields
    THEN {now, s[2].nbf, s[2].nbf - 1, s[2].exp + 1}
    ELSE {now}

\* C16: validation order. The signature is compared before any decoded claim
\* is acted on: a badly signed token fails at the signature comparison
\* whatever its payload says, so a token that is badly signed and also
\* expired or not yet valid is never reported as expired or not yet valid.
C16_SignatureFirst ==
    /\ (res.op = "validate" /\ BadlySigned(res.input))
           => res.err = "ErrInvalidToken" /\ res.claims = NoClaims
    /\ Accepting =>
           \A s \in Presentable :
               BadlySigned(s) =>
                   \A t \in ProbeTimes(s) :
                       /\ ParseWithClaims(s, jwtSecret, t).err = "ErrTokenSignatureInvalid"
                       /\ ParseToken(s, t) = [err |-> "ErrInvalidToken", claims |-> NoClaims]

C16_Witness ==
    /\ res.op = "validate"
    /\ BadlySigned(res.input)
    /\ DOMAIN res.input[2] = ClaimsFields
    /\ res.at > res.input[2].exp
    /\ res.err = "ErrInvalidToken"

\* C17: expiry boundary. A correctly signed token validated at exactly
\* now = expires_at fails as expired.
C17_ExpiryBoundary ==
    (res.op = "validate" /\ res.input \in Current /\ res.at = res.input[2].exp)
        => res.err = "ErrExpiredToken"

\* a three-segment string with a segment that does not decode
Undecodable(s) ==
    Len(s) = 3 /\ (s[2] = JunkPayload \/ s[3] = JunkSig)

\* C18: malformed input. Every string that is not three segments, or has a
\* segment that does not decode, fails as malformed: never at the signature
\* comparison, never as expired or not yet valid, never with success.
C18_Malformed ==
    (res.op = "validate" /\ (Len(res.input) # 3 \/ Undecodable(res.input)))
        => /\ ParseWithClaims(res.input, jwtSecret, res.at).err = "ErrTokenMalformed"
           /\ res.err # "nil"

\* C19: not yet valid. A correctly signed token validated before its
\* not_before fails with a not-yet-valid error of its own, not with the
\* generic invalid-token error.
C19_NotYetValid ==
    Accepting =>
        \A tok \in Current :
            ParseToken(tok, tok[2].nbf - 1).err = "ErrTokenNotValidYet"

\* the time fields of claims c issued at time t with lifetime d
IssuedAsBuilt(c, t, d) ==
    c.iat = t /\ c.nbf = t /\ c.exp = t + d

----------------------------------------------------------------------------
(* C21 .. C30 *)

\* the lifetime a token was issued with
Lifetime(tok) == tok[2].exp - tok[2].iat

\* the last request returned a TokenPair
ReturnedPair == res.op \in {"login", "refresh"} /\ res.err = "nil"

\* C21: every pair handed out, by login or by refresh, has an access token
\* whose lifetime is strictly shorter than that of its refresh token
\* (15 minutes against 7 days).
C21_AccessShorter ==
    /\ \A p \in pairs :
           /\ Lifetime(p.access_token) < Lifetime(p.refresh_token)
           /\ Lifetime(p.access_token) = AccessTTL
           /\ Lifetime(p.refresh_token) = RefreshTTL
    /\ ReturnedPair =>
           /\ Lifetime(res.pair.access_token) < Lifetime(res.pair.refresh_token)
           /\ res.pair.access_token[2].exp < res.pair.refresh_token[2].exp

C21_Witness ==
    /\ res.op = "refresh"
    /\ res.err = "nil"
    /\ Lifetime(res.pair.access_token) = 15 * 60
    /\ Lifetime(res.pair.refresh_token) = 7 * 24 * 60 * 60

C24_SurvivesRestart ==
    /\ pc \in {"ready", "serving"} => jwtSecret = osEnv
    /\ (res.op = "validate" /\ res.input \in Issued
            /\ res.input[3].k = osEnv /\ InWindow)
           => res.err = "nil" /\ res.claims = res.input[2]
    /\ Accepting =>
           \A tok \in Issued :
               (tok[3].k = osEnv /\ tok[2].nbf <= now /\ now < tok[2].exp)
                   => ParseToken(tok, now) = [err |-> "nil", claims |-> tok[2]]

\* a token signed at time 0 validates at a later time although the server
\* ran under another secret in between (it issued a token under that one), so
\* it was restarted at least twice since the token was issued
C24_Witness ==
    /\ res.op = "validate"
    /\ res.err = "nil"
    /\ res.input \in Issued
    /\ res.input[2].iat = 0
    /\ res.input[3].k = osEnv
    /\ \E other \in Issued : /\ other[3].k # res.input[3].k
                             /\ other[2].iat > 0
                             /\ other[2].iat <= res.at

\* C26: re-login after 7 days. A session lives by refreshing for at most 7
\* days after its login: when a refresh succeeds, the session began no later
\* than the issue time of the refresh token presented, and one second past 7
\* days from then no refresh succeeds, not even with the refresh token this
\* refresh returned.
C26_ReloginAfterSevenDays ==
    (res.op = "refresh" /\ res.err = "nil") =>
        LET began == res.input[2].iat
        IN  Refresh(res.pair.refresh_token, began + RefreshTTL + 1).err # "nil"

\* C27: ParseToken returns exactly one of (claims, nil), ErrExpiredToken and
\* ErrInvalidToken. It returns ErrExpiredToken exactly when the library's
\* failure is expiry; a token not yet valid, a bad signature and a malformed
\* string are all reported as ErrInvalidToken.
C27_Classification ==
    /\ res.op = "validate" =>
           /\ \/ res.err = "nil" /\ res.claims # NoClaims
              \/ res.err \in {"ErrExpiredToken", "ErrInvalidToken"} /\ res.claims = NoClaims
           /\ res.err = "ErrExpiredToken"
                  <=> ParseWithClaims(res.input, jwtSecret, res.at).err = "ErrTokenExpired"
    /\ Accepting =>
           \A s \in Presentable :
               \A t \in (IF Len(s) = 3 THEN ProbeTimes(s) ELSE {now}) :
                   LET lib == ParseWithClaims(s, jwtSecret, t)
                       out == ParseToken(s, t)
                   IN  /\ out.err \in {"nil", "ErrExpiredToken", "ErrInvalidToken"}
                       /\ out.err = "nil" <=> lib.err = "nil"
                       /\ out.err = "nil" => out.claims = s[2]
                       /\ out.err # "nil" => out.claims = NoClaims
                       /\ out.err = "ErrExpiredToken" <=> lib.err = "ErrTokenExpired"
                       /\ lib.err \in {"ErrTokenNotValidYet", "ErrTokenSignatureInvalid",
                                       "ErrTokenMalformed"}
                              => out.err = "ErrInvalidToken"
    /\ Accepting =>
           \A tok \in Current :
               /\ ParseToken(tok, tok[2].nbf - 1).err = "ErrInvalidToken"
               /\ ParseToken(tok, tok[2].exp + 1).err = "ErrExpiredToken"
               /\ \A bad \in Tampered(tok) : ParseToken(bad, now).err = "ErrInvalidToken"

\* a string that is no three segments was answered ErrInvalidToken while a
\* token of the same server, presented now, is answered ErrExpiredToken and
\* another one, one second before its not_before, ErrInvalidToken
C27_Witness ==
    /\ res.op = "validate"
    /\ Len(res.input) # 3
    /\ res.err = "ErrInvalidToken"
    /\ \E tok \in Current : ParseToken(tok, res.at).err = "ErrExpiredToken"
    /\ \E tok \in Current :
           /\ ParseWithClaims(tok, jwtSecret, tok[2].nbf - 1).err = "ErrTokenNotValidYet"
           /\ ParseToken(tok, tok[2].nbf - 1).err = "ErrInvalidToken"

----------------------------------------------------------------------------
(* The middleware chain of a route *)

\* the slices the xxxMw() functions return
Middlewares ==
    {<<"JWT">>,
     <<"JWT", "Logger", "RateLimit">>,
     <<"JWT", "RBAC", "Logger", "RateLimit">>}

\* append(_deletebyscopeMw(), api.DeleteByScope): the business handler is
\* appended to the middleware slice
Route(mw) == Append(mw, "api")

\* middleware.RBACMiddleware(): 403 unless the user may do this
RBACMiddleware(permitted) ==
    IF permitted THEN [status |-> 0, next |-> TRUE]
    ELSE [status |-> 403, next |-> FALSE]

\* middleware.LoggerMiddleware(): records the request and goes on
LoggerMiddleware == [status |-> 0, next |-> TRUE]

\* middleware.RateLimitMiddleware(): 429 once the caller is over the limit
RateLimitMiddleware(limited) ==
    IF limited THEN [status |-> 429, next |-> FALSE]
    ELSE [status |-> 0, next |-> TRUE]

\* what handler h does with request context c: the status it writes and
\* whether it goes on (ctx.Next()) or stops the chain (ctx.Abort(); return)
Handler(h, c) ==
    CASE h = "JWT" ->
             LET g == MiddlewareFunc([scheme |-> "Bearer", token |-> c.input], c.at)
             IN  [status |-> g.status, next |-> g.next]
      [] h = "RBAC"      -> RBACMiddleware(c.permitted)
      [] h = "Logger"    -> LoggerMiddleware
      [] h = "RateLimit" -> RateLimitMiddleware(c.limited)
      [] h = "api"       -> [status |-> 200, next |-> TRUE]

\* ctx.Abort()
\* faulty variant: the context is marked aborted but the handlers that
\* follow still run
Abort_FlagOnly(c) == [c EXCEPT !.aborted = TRUE, !.index = @ + 1]

Abort(c) == [c EXCEPT !.aborted = TRUE, !.index = Len(c.handlers) + 1]

\* a request arrives on a route: its context starts at the first handler
Serve(mw, header, permitted, limited) ==
    /\ Accepting
    /\ res' = [op |-> "chain", input |-> TrimPrefix(header), at |-> now,
               err |-> "nil", claims |-> NoClaims, pair |-> NoPair,
               status |-> 0, next |-> FALSE, user |-> NoUser,
               handlers |-> Route(mw), index |-> 1, ran |-> <<>>,
               aborted |-> FALSE, permitted |-> permitted, limited |-> limited]
    /\ UNCHANGED <<pc, osEnv, dotenv, jwtSecret, now, ticks, pairs>>

\* ctx.Next(): the handler at the index runs; it either goes on to the next
\* index or aborts
CtxNext ==
    /\ res.op = "chain"
    /\ res.index <= Len(res.handlers)
    /\ LET h   == res.handlers[res.index]
           o   == Handler(h, res)
           ran == [res EXCEPT !.ran = Append(@, h),
                              !.status = IF ~o.next \/ h = "api" THEN o.status ELSE @,
                              !.next = (h = "api")]
       IN  res' = IF o.next THEN [ran EXCEPT !.index = @ + 1] ELSE Abort(ran)
    /\ UNCHANGED <<pc, osEnv, dotenv, jwtSecret, now, ticks, pairs>>

\* the chain is over and the response leaves the server
Respond ==
    /\ res.op = "chain"
    /\ res.index > Len(res.handlers)
    /\ res' = Idle
    /\ UNCHANGED <<pc, osEnv, dotenv, jwtSecret, now, ticks, pairs>>

NextChain ==
    \/ EnvInit
    \/ JwtInit
    \/ Main
    \/ Tick
    \/ Accepting /\ \E p \in Principals : Login(p)
    \/ Accepting /\ \E mw \in Middlewares, h \in Headers, permitted, limited \in BOOLEAN :
           Serve(mw, h, permitted, limited)
    \/ CtxNext
    \/ Respond
    \/ res.op = "login" /\ Reply

SpecChain == Init /\ [][NextChain]_vars

\* the first position of the chain whose handler does not go on, or one past
\* the end
FirstStop(c) ==
    LET stops == {j \in 1..Len(c.handlers) : ~Handler(c.handlers[j], c).next}
    IN  IF stops = {} THEN Len(c.handlers) + 1
        ELSE CHOOSE j \in stops : \A i \in stops : j <= i

\* C28: the handlers of a route run in slice order with the business handler
\* last; a handler runs only if every handler before it went on, and once a
\* middleware aborts (401, 403, 429) no later middleware and not the business
\* handler runs for that request.
C28_Chain ==
    /\ [](res.op = "chain" =>
            LET n == Len(res.handlers)
                k == Len(res.ran)
            IN  /\ res.handlers[n] = "api"
                /\ \A i \in 1..(n - 1) : res.handlers[i] # "api"
                /\ k <= n
                /\ \A i \in 1..k : res.ran[i] = res.handlers[i]
                /\ \A i \in 1..k : \A j \in 1..(i - 1) :
                       Handler(res.handlers[j], res).next
                /\ k <= FirstStop(res)
                /\ res.aborted <=> (k >= 1 /\ ~Handler(res.ran[k], res).next)
                /\ res.aborted =>
                       /\ res.index > n
                       /\ res.status = Handler(res.ran[k], res).status
                       /\ res.status \in {401, 403, 429}
                       /\ \A i \in 1..k : res.ran[i] # "api"
                /\ (res.index > n /\ ~res.aborted) =>
                       res.ran = res.handlers /\ res.status = 200)
    /\ [][(res.op = "chain" /\ res.aborted /\ res' # res) => res' = Idle]_vars

\* the JWT middleware let the request through, RBAC answered 403, and neither
\* the logger, the rate limiter nor the business handler ran
C28_Witness ==
    /\ res.op = "chain"
    /\ res.handlers = <<"JWT", "RBAC", "Logger", "RateLimit", "api">>
    /\ res.ran = <<"JWT", "RBAC">>
    /\ res.aborted
    /\ res.status = 403
    /\ res.limited

\* C29: a missing or unreadable .env file is not fatal. env.init then changes
\* nothing and the start goes on to jwt.init, which succeeds exactly when
\* JWT_SECRET is set in the environment of the process and panics exactly
\* when it is not.
C29_MissingDotenvNotFatal ==
    /\ [][(pc = "boot" /\ dotenv = "absent" /\ pc' # pc)
              => pc' = "envDone" /\ osEnv' = osEnv]_vars
    /\ [][(pc = "envDone" /\ dotenv = "absent" /\ pc' # pc)
              => /\ pc' \in {"ready", "panicked"}
                 /\ pc' = "ready" <=> osEnv # ""
                 /\ pc' = "panicked" <=> osEnv = ""]_vars
    /\ [](dotenv = "absent" =>
              /\ pc \in {"ready", "serving"} => osEnv # "" /\ jwtSecret = osEnv
              /\ pc = "panicked" => osEnv = "")

C29_Witness ==
    /\ dotenv = "absent"
    /\ pc = "serving"
    /\ osEnv = "s1"
    /\ res.op = "login"
    /\ res.pair.access_token[3].k = "s1"

----------------------------------------------------------------------------
(* Package initialization at program start *)

Packages == {"env", "jwt", "db", "redis", "main"}

\* the orders in which main can list its imports
ImportOrders ==
    {order \in [1..3 -> {"jwt", "db", "redis"}] :
         \A i, j \in 1..3 : order[i] = order[j] => i = j}

\* the packages a package imports: jwt, db and redis each import pkg/env
Imports(p, order) ==
    CASE p = "main" -> order
      [] p \in {"jwt", "db", "redis"} -> <<"env">>
      [] p = "env" -> <<>>

RECURSIVE InitPackage(_, _, _)

RECURSIVE InitImports(_, _, _)

\* faulty variant: a package is initialized again for every import of it
InitPackage_EveryImport(p, order, done) ==
    Append(InitImports(Imports(p, order), order, done), p)

\* the runtime initializes package p: its imports first, depth first, and
\* nothing for a package already initialized; done lists the packages
\* initialized so far
InitPackage(p, order, done) ==
    IF \E i \in DOMAIN done : done[i] = p
    THEN done
    ELSE Append(InitImports(Imports(p, order), order, done), p)

InitImports(ps, order, done) ==
    IF ps = <<>> THEN done
    ELSE InitImports(Tail(ps), order, InitPackage(Head(ps), order, done))

\* program start: main's dependencies, then main
ProgramStart(order) == InitPackage("main", order, <<>>)

\* the packages that have an init() of their own, and main()
HasInit(p) == p \in {"env", "jwt", "main"}

\* C30: package initialization happens once. At every start of the process,
\* whatever the order of main's imports, pkg/env, imported by jwt, db and
\* redis, is initialized exactly once and first; in the running process the environment is loaded by that
\* one step only and the secret is read after it, from the loaded environment.
C30_InitOnce ==
    /\ [](pc = "boot" =>
              \A order \in ImportOrders :
                  LET inits == ProgramStart(order)
                  IN  /\ \A p \in Packages :
                             Cardinality({i \in DOMAIN inits : inits[i] = p}) = 1
                      /\ inits[1] = "env"
                      /\ inits[Len(inits)] = "main"
                      /\ SelectSeq(inits, HasInit) = <<"env", "jwt", "main">>)
    /\ [][osEnv' # osEnv => (pc = "boot" /\ pc' = "envDone") \/ pc' = "boot"]_vars
    /\ [][(jwtSecret' # jwtSecret /\ pc' # "boot")
              => pc = "envDone" /\ osEnv' = osEnv /\ jwtSecret' = osEnv]_vars

C30_Witness ==
    /\ pc = "serving"
    /\ dotenv = "s2"
    /\ osEnv = "s2"
    /\ jwtSecret = "s2"
    /\ res = Idle
    /\ pairs # {}
    /\ ProgramStart(<<"jwt", "db", "redis">>) = <<"env", "jwt", "db", "redis", "main">>
    /\ ProgramStart(<<"redis", "db", "jwt">>) = <<"env", "redis", "db", "jwt", "main">>

----------------------------------------------------------------------------
(* Parallel requests: each call runs in steps of its own goroutine *)

\* the requests in flight at once
Slots == {1, 2}

NoCall == [phase |-> "free"]

\* the calls in flight
Calls == IF res.op = "parallel" THEN res.calls ELSE [i \in Slots |-> NoCall]

\* the library and service calls a request can make, and their arguments
Requests ==
    {[op |-> "issue", arg |-> p] : p \in Principals}
        \cup {[op |-> "issuePair", arg |-> p] : p \in Principals}
        \cup {[op |-> "validate", arg |-> tok] : tok \in AccessTokens \cup {<<>>}}
        \cup {[op |-> "refresh", arg |-> tok] : tok \in RefreshTokens}

\* the result of a call run at time t
Run(op, arg, t) ==
    CASE op = "issue" ->
             [err |-> "nil", token |-> GenerateToken(arg.id, arg.name, AccessTTL, t)]
      [] op = "issuePair" ->
             [err |-> "nil", pair |-> GenerateTokenPair(arg.id, arg.name, t)]
      [] op = "validate" -> ParseToken(arg, t)
      [] op = "refresh" -> Refresh(arg, t)

\* calls in flight that can hand out a pair
Issuing == {i \in Slots : Calls[i].phase # "free" /\ Calls[i].op \in {"issuePair", "refresh"}}

\* a request arrives and its goroutine starts, in the first free slot
Enter(i, r) ==
    /\ pc = "serving"
    /\ res = Idle \/ res.op = "parallel"
    /\ Calls[i].phase = "free"
    /\ \A j \in Slots : j < i => Calls[j].phase # "free"
    /\ r.op \in {"issuePair", "refresh"} =>
           Cardinality(pairs) + Cardinality(Issuing) < MaxPairs
    /\ res' = [op |-> "parallel",
               calls |-> [Calls EXCEPT ![i] = [phase |-> "entered", op |-> r.op,
                                               arg |-> r.arg]]]
    /\ UNCHANGED <<pc, osEnv, dotenv, jwtSecret, now, ticks, pairs>>

\* the call runs: it reads the clock and the secret and builds its result
\* from values of its own
\* faulty variant: the request is kept in a package-level variable that the
\* calls share, so a call can run on the request of another call in flight
Compute_SharedRequest(i) ==
    /\ res.op = "parallel"
    /\ res.calls[i].phase = "entered"
    /\ LET j    == CHOOSE j \in Slots : res.calls[j].phase = "entered"
           call == res.calls[i]
           req  == res.calls[j]
       IN  res' = [res EXCEPT !.calls[i] =
                       [phase |-> "done", op |-> call.op, arg |-> call.arg,
                        at |-> now, out |-> Run(req.op, req.arg, now)]]
    /\ UNCHANGED <<pc, osEnv, dotenv, jwtSecret, now, ticks, pairs>>

Compute(i) ==
    /\ res.op = "parallel"
    /\ res.calls[i].phase = "entered"
    /\ LET call == res.calls[i]
       IN  res' = [res EXCEPT !.calls[i] =
                       [phase |-> "done", op |-> call.op, arg |-> call.arg,
                        at |-> now, out |-> Run(call.op, call.arg, now)]]
    /\ UNCHANGED <<pc, osEnv, dotenv, jwtSecret, now, ticks, pairs>>

\* the result goes back to the client, who keeps a pair it was handed
Return(i) ==
    /\ res.op = "parallel"
    /\ res.calls[i].phase = "done"
    /\ LET call  == res.calls[i]
           after == [res.calls EXCEPT ![i] = NoCall]
       IN  /\ pairs' = IF call.op \in {"issuePair", "refresh"} /\ call.out.err = "nil"
                       THEN pairs \cup {call.out.pair}
                       ELSE pairs
           /\ res' = IF \A j \in Slots : after[j] = NoCall
                     THEN Idle
                     ELSE [res EXCEPT !.calls = after]
    /\ UNCHANGED <<pc, osEnv, dotenv, jwtSecret, now, ticks>>

\* an hour passes, also while calls are in flight
Elapse ==
    /\ ticks < MaxTicks
    /\ pc = "serving"
    /\ now' = now + Hour
    /\ ticks' = ticks + 1
    /\ UNCHANGED <<pc, osEnv, dotenv, jwtSecret, pairs, res>>

NextConc ==
    \/ EnvInit
    \/ JwtInit
    \/ Main
    \/ Elapse
    \/ \E i \in Slots : \E r \in Requests : Enter(i, r)
    \/ \E i \in Slots : Compute(i)
    \/ \E i \in Slots : Return(i)

SpecConc == Init /\ [][NextConc]_vars

----------------------------------------------------------------------------
(* C31 .. C33 *)

\* the principal a token carries
PrincipalOf(tok) == [id |-> tok[2].user_id, name |-> tok[2].username]

\* C31: principal preservation across refresh chains. Every token handed out
\* carries the id and name of a principal that logged in; both tokens of a
\* pair returned by a refresh carry exactly the principal of the refresh
\* token presented, and so do the tokens of the refresh after that one.
C31_PrincipalPreserved ==
    /\ \A tok \in Issued : PrincipalOf(tok) \in Principals
    /\ \A p \in pairs : PrincipalOf(p.access_token) = PrincipalOf(p.refresh_token)
    /\ (res.op = "refresh" /\ res.err = "nil") =>
           /\ PrincipalOf(res.pair.access_token) = PrincipalOf(res.input)
           /\ PrincipalOf(res.pair.refresh_token) = PrincipalOf(res.input)
    /\ Accepting =>
           \A tok \in Current :
               LET first == Refresh(tok, now)
               IN  first.err = "nil" =>
                       LET second == Refresh(first.pair.refresh_token, now + Hour)
                       IN  /\ second.err = "nil"
                           /\ PrincipalOf(first.pair.access_token) = PrincipalOf(tok)
                           /\ PrincipalOf(first.pair.refresh_token) = PrincipalOf(tok)
                           /\ PrincipalOf(second.pair.access_token) = PrincipalOf(tok)
                           /\ PrincipalOf(second.pair.refresh_token) = PrincipalOf(tok)

\* alice logged in at time 0 and a refresh token issued later, by a refresh
\* of hers, is refreshed in turn: the pair is alice's
C31_Witness ==
    /\ res.op = "refresh"
    /\ res.err = "nil"
    /\ res.input \in RefreshTokens
    /\ res.input[2].iat > 0
    /\ \A p \in pairs : PrincipalOf(p.refresh_token) = [id |-> 2, name |-> "alice"]
    /\ \E p \in pairs : p.refresh_token[2].iat = 0
    /\ PrincipalOf(res.pair.access_token) = [id |-> 2, name |-> "alice"]

\* instants around the window of token tok
Instants(tok) ==
    {tok[2].nbf - 1, tok[2].nbf, tok[2].exp, tok[2].exp + 1, tok[2].exp + Hour + 1}

\* C32: validity is one contiguous window. For every token issued or
\* validated, under the secret in force, a token found expired at one time is found expired at every later time, it
\* never validates at a time after one at which it was expired nor before one
\* at which it was not yet valid, and it validates at every time between two
\* at which it validates; as the clock of the server advances an expired
\* token stays expired.
C32_SingleWindow ==
    /\ [](res.op \in {"issue", "validate"} =>
              LET tok == res.input
              IN  \A t1, t2 \in Instants(tok) \cup {res.at} :
                      t1 <= t2 =>
                          /\ ParseToken(tok, t1).err = "ErrExpiredToken"
                                 => ParseToken(tok, t2).err = "ErrExpiredToken"
                          /\ ParseWithClaims(tok, jwtSecret, t2).err = "ErrTokenNotValidYet"
                                 => ParseToken(tok, t1).err # "nil"
                          /\ (ParseToken(tok, t1).err = "nil" /\ ParseToken(tok, t2).err = "nil")
                                 => \A t \in Instants(tok) \cup {res.at} :
                                        (t1 <= t /\ t <= t2) => ParseToken(tok, t).err = "nil")
    /\ [][(now' > now /\ jwtSecret' = jwtSecret) =>
              \A tok \in Issued :
                  ParseToken(tok, now).err = "ErrExpiredToken"
                      => ParseToken(tok, now)'.err = "ErrExpiredToken"]_vars

\* a token answered as expired that was expired an hour earlier already,
\* after two advances of the clock
C32_Witness ==
    /\ res.op = "validate"
    /\ res.input \in Issued
    /\ res.err = "ErrExpiredToken"
    /\ ticks = 2
    /\ res.at - Hour > res.input[2].exp
    /\ ParseToken(res.input, res.at - Hour).err = "ErrExpiredToken"

\* the outcome a caller of ParseToken can tell from the error it gets
Outcome(err) ==
    CASE err = "nil" -> "success"
      [] err = "ErrExpiredToken" -> "EXPIRED"
      [] OTHER -> err

\* C33: validate is total and its outcomes are mutually exclusive. For every
\* string and time it returns exactly one of success, MALFORMED,
\* BAD_SIGNATURE, NOT_YET_VALID and EXPIRED, and claims come with success
\* only.
C33_TotalExclusive ==
    /\ res.op = "validate" =>
           /\ Outcome(res.err) \in {"success", "MALFORMED", "BAD_SIGNATURE",
                                    "NOT_YET_VALID", "EXPIRED"}
           /\ res.claims # NoClaims <=> res.err = "nil"
    /\ Accepting =>
           \A s \in Presentable :
               \A t \in (IF Len(s) = 3 THEN ProbeTimes(s) ELSE {now}) :
                   LET out == ParseToken(s, t)
                   IN  /\ Outcome(out.err) \in {"success", "MALFORMED", "BAD_SIGNATURE",
                                                "NOT_YET_VALID", "EXPIRED"}
                       /\ out.claims # NoClaims <=> out.err = "nil"

====
